---- MODULE Spec2Model ----
(***************************************************************************)
(* Model of the download adapter of app.py: the three handlers             *)
(* download_song, download_album and download_playlist, the temporary      *)
(* directory each of them creates, the files the provider writes there,    *)
(* the discovery walk, the rename / zip step, send_file and the cleanup    *)
(* callback.                                                               *)
(*                                                                         *)
(* Strings are sequences of one-character tokens; the tokens "mp3",        *)
(* "flac", "txt", "zip", "song", "album", "playlist" stand for those       *)
(* runs of characters, none of which is a character sanitize_filename,     *)
(* str.isdigit or str.endswith treats specially.                           *)
(***************************************************************************)
EXTENDS Integers, Sequences, FiniteSets, TLC

\* ------------------------------------------------------------------ bounds
\* Largest number of files one provider call writes under the directory.
MaxFiles == 2
\* Longest resource id (in characters) a request carries.
MaxIdLen == 1
\* Longest string handed to sanitize_filename in SpecSan.
MaxSanLen == 2
\* Largest number of files one provider call writes when two requests overlap.
MaxConcFiles == 1

\* ------------------------------------------------------- strings and paths
Root == <<>>
Sub  == <<"d">>
Dirs == {Root, Sub}

\* File names the provider may produce.
FileNames ==
    { <<"a", ".", "mp3">>,
      <<"a", ":", "b", ".", "mp3">>,
      <<"c", ".", "flac">>,
      <<"n", ".", "txt">> }

\* Relative paths (directory below the temporary directory, file name).
RelPaths == [dir : Dirs, name : FileNames]

\* Names tempfile.mkdtemp can hand out.
TmpNames == {"tmp1", "tmp2"}
NoDir == "none"

Requests == {"r1", "r2"}

\* re.sub(r'[<>:"/\\|?*]', '_', filename): the character class.
BadChars == {"<", ">", ":", "\"", "/", "\\", "|", "?", "*"}

\* The character class without the question mark.
SanitizeCharNoQuestionMark(c) == IF c \in BadChars \ {"?"} THEN "_" ELSE c

SanitizeChar(c) == IF c \in BadChars THEN "_" ELSE c

sanitize_filename(filename) ==
    [i \in 1..Len(filename) |-> SanitizeChar(filename[i])]

\* Characters for which str.isdigit() is true: the ASCII digits and the other
\* Unicode digits (here SUPERSCRIPT TWO, U+00B2).
AsciiDigits == {"0", "1", "2", "3", "4", "5", "6", "7", "8", "9"}
UnicodeDigits == AsciiDigits \cup {"U+00B2"}

\* An id check that accepts every non-empty string.
isdigit_nonempty(id) == Len(id) > 0

\* str.isdigit(): true when the string is not empty and all of its
\* characters are digits.
isdigit(id) == Len(id) > 0 /\ \A i \in 1..Len(id) : id[i] \in UnicodeDigits

allowed_qualities == {"MP3_128", "MP3_320", "FLAC"}

\* request.args.get('quality', 'MP3_320')
get_quality(arg) == IF arg = "absent" THEN "MP3_320" ELSE arg

\* A suffix test that takes any extension.
endswith_any(file) == Len(file) >= 2 /\ file[Len(file) - 1] = "."

\* file.endswith(('.mp3', '.flac'))
endswith_audio(file) ==
    /\ Len(file) >= 2
    /\ file[Len(file) - 1] = "."
    /\ file[Len(file)] \in {"mp3", "flac"}

\* os.path.splitext(p)[0]: the part before the last dot, the whole name when
\* there is no dot or only dots precede it.
LastDot(p) ==
    IF \E i \in 1..Len(p) : p[i] = "."
    THEN CHOOSE i \in 1..Len(p) :
            p[i] = "." /\ \A j \in (i + 1)..Len(p) : p[j] # "."
    ELSE 0

splitext_base(p) ==
    LET d == LastDot(p)
    IN IF d > 0 /\ \E j \in 1..(d - 1) : p[j] # "."
       THEN SubSeq(p, 1, d - 1)
       ELSE p

\* f"{sanitized_name}.{'flac' if quality == 'FLAC' else 'mp3'}"
extension_for(quality) == IF quality = "FLAC" THEN "flac" ELSE "mp3"

new_filename_of(original_filename, quality) ==
    sanitize_filename(splitext_base(original_filename))
        \o <<".", extension_for(quality)>>

\* mimetype='audio/mpeg' if quality != 'FLAC' else 'audio/flac'
mimetype_for(quality) == IF quality # "FLAC" THEN "audio/mpeg" ELSE "audio/flac"

\* f"album_{id}.zip" / f"playlist_{id}.zip"
zip_name(rtype, id) == <<rtype, "_">> \o id \o <<".", "zip">>

\* os.path.relpath(file_path, temp_dir): the path with the directory prefix
\* taken off.
relpath(file_path) == [dir |-> file_path.dir, name |-> file_path.name]

\* os.path.join(temp_dir, name)
join(wd, name) == [wd |-> wd, dir |-> Root, name |-> name]

\* ------------------------------------------------------------ file contents
NoSrc == [dir |-> Root, name |-> <<>>]
RawData(rel) == [kind |-> "raw", src |-> rel, entries |-> <<>>]
ZipData(entries) == [kind |-> "zip", src |-> NoSrc, entries |-> entries]
NoData == [kind |-> "none", src |-> NoSrc, entries |-> <<>>]

NoPath == [wd |-> NoDir, dir |-> Root, name |-> <<>>]
NoReq == [rtype |-> "none", id |-> <<>>, quality |-> "none"]
NoBody == [kind |-> "none", detail |-> "none"]
NoResp == [made |-> FALSE, path |-> NoPath, download_name |-> <<>>,
           mimetype |-> "none", payload |-> NoData]

ErrorBody(e) == [kind |-> "Error", detail |-> e]

VARIABLES
    hookDefined, \* whether the response object has the attribute call_after_request
    tmpdirs,     \* the temporary directories that exist
    subdirs,     \* the subdirectories that exist, as <<temporary directory, dir>>
    files,       \* the files that exist: [wd, dir, name, data]
    pc,          \* where each request's handler is
    req,         \* each request's path and query parameters
    temp_dir,    \* each handler's temp_dir
    calls,       \* how many times each handler has called the provider
    written,     \* the relative paths the provider wrote for each request
    provider,    \* how each request's provider call ended: idle, returned, raised
    downloaded,  \* each handler's downloaded_files / audio_files
    resp,        \* the response send_file built
    status,      \* the status code returned (0: none yet)
    body,        \* the JSON body returned, or the file
    logged,      \* whether the cleanup callback logged an error
    sanIn, sanOnce, sanTwice, sanPc   \* sanitize_filename applied on its own

vars == <<hookDefined, tmpdirs, subdirs, files, pc, req, temp_dir, calls,
          written, provider, downloaded, resp, status, body, logged,
          sanIn, sanOnce, sanTwice, sanPc>>

fsVars == <<tmpdirs, subdirs, files>>
sanVars == <<sanIn, sanOnce, sanTwice, sanPc>>


\* ------------------------------------------------------------------- inputs
IdChars == {"7", "U+00B2", "a"}
Ids(n) == UNION {[1..k -> IdChars] : k \in 1..n}
ResourceTypes == {"song", "album", "playlist"}
QualityArgs == {"MP3_128", "MP3_320", "FLAC", "flac", "absent"}

\* The sets of files one provider call may leave behind.
FileSets(paths, n) == {F \in SUBSET paths : Cardinality(F) <= n}

\* ---------------------------------------------------------------- file system
FilesUnder(wd) == {f \in files : f.wd = wd}
FileAt(path) ==
    {f \in files : f.wd = path.wd /\ f.dir = path.dir /\ f.name = path.name}
PathOf(f) == [wd |-> f.wd, dir |-> f.dir, name |-> f.name]
DataAt(path) ==
    IF FileAt(path) = {} THEN NoData ELSE (CHOOSE f \in FileAt(path) : TRUE).data

\* os.walk(temp_dir), top down: the files of the directory itself in some
\* order, then those of its subdirectories; the handler keeps the paths whose
\* name ends with .mp3 or .flac.
Orderings(S) ==
    {o \in [1..Cardinality(S) -> S] :
        \A i, j \in 1..Cardinality(S) : i # j => o[i] # o[j]}

WalkOrders(wd) ==
    LET audio == {PathOf(f) : f \in {g \in FilesUnder(wd) : endswith_audio(g.name)}}
    IN {o \in Orderings(audio) :
          \A i, j \in 1..Len(o) :
             (o[i].dir = Root /\ o[j].dir # Root) => i < j}

\* A name chosen without looking at the directories that exist.
AnyName == TmpNames

\* tempfile.mkdtemp(): a directory that did not exist.
FreshNames == TmpNames \ tmpdirs

\* -------------------------------------------------------------------- Init
InitFs ==
    /\ tmpdirs = {}
    /\ subdirs = {}
    /\ files = {}

InitRequests ==
    /\ pc = [r \in Requests |-> "Idle"]
    /\ req = [r \in Requests |-> NoReq]
    /\ temp_dir = [r \in Requests |-> NoDir]
    /\ calls = [r \in Requests |-> 0]
    /\ written = [r \in Requests |-> {}]
    /\ provider = [r \in Requests |-> "idle"]
    /\ downloaded = [r \in Requests |-> <<>>]
    /\ resp = [r \in Requests |-> NoResp]
    /\ status = [r \in Requests |-> 0]
    /\ body = [r \in Requests |-> NoBody]
    /\ logged = [r \in Requests |-> FALSE]

InitSanIdle ==
    /\ sanIn = <<>>
    /\ sanOnce = <<>>
    /\ sanTwice = <<>>
    /\ sanPc = "off"

Init ==
    /\ hookDefined \in BOOLEAN
    /\ InitFs
    /\ InitRequests
    /\ InitSanIdle

\* ----------------------------------------------------------------- actions
\* return jsonify({'error': ...}), code
Fail(r, code, b) ==
    /\ pc' = [pc EXCEPT ![r] = "Failed"]
    /\ status' = [status EXCEPT ![r] = code]
    /\ body' = [body EXCEPT ![r] = b]

\* Flask dispatches a GET on /download/<type>/<id>?quality=... to the handler.
Receive(r, ids, qualities) ==
    /\ pc[r] = "Idle"
    /\ \E t \in ResourceTypes, i \in ids, q \in qualities :
          req' = [req EXCEPT ![r] = [rtype |-> t, id |-> i, quality |-> q]]
    /\ pc' = [pc EXCEPT ![r] = "Validating"]
    /\ UNCHANGED <<hookDefined, fsVars, temp_dir, calls, written, downloaded,
                   resp, status, body, logged, provider, sanVars>>

\* The quality check, then the id check.
Validate(r) ==
    /\ pc[r] = "Validating"
    /\ IF get_quality(req[r].quality) \notin allowed_qualities
       THEN Fail(r, 400, [kind |-> "InvalidQuality", detail |-> "none"])
       ELSE IF ~isdigit(req[r].id)
       THEN Fail(r, 400, [kind |-> "InvalidId", detail |-> req[r].rtype])
       ELSE /\ pc' = [pc EXCEPT ![r] = "Mkdtemp"]
            /\ UNCHANGED <<status, body>>
    /\ UNCHANGED <<hookDefined, fsVars, req, temp_dir, calls, written,
                   downloaded, resp, logged, provider, sanVars>>

\* temp_dir = tempfile.mkdtemp()
Mkdtemp(r) ==
    /\ pc[r] = "Mkdtemp"
    /\ \E n \in FreshNames :
          /\ temp_dir' = [temp_dir EXCEPT ![r] = n]
          /\ tmpdirs' = tmpdirs \cup {n}
    /\ pc' = [pc EXCEPT ![r] = "Invoking"]
    /\ UNCHANGED <<hookDefined, subdirs, files, req, calls, written,
                   downloaded, resp, status, body, logged, provider, sanVars>>

\* A handler that calls the provider again after an error.
OnProviderErrorRetry(r) ==
    /\ pc' = pc
    /\ UNCHANGED <<status, body>>

\* What the handler does when the provider call raises: the except clause.
OnProviderError(r) ==
    Fail(r, 500, ErrorBody("ProviderError"))

\* deezer.download_trackdee / download_albumdee / download_playlistdee: the
\* provider writes files under output_dir, then returns or raises.
Invoke(r, fileSets) ==
    /\ pc[r] = "Invoking"
    /\ calls' = [calls EXCEPT ![r] = @ + 1]
    /\ \E F \in fileSets, raised \in BOOLEAN :
          /\ files' = files \cup
                {[wd |-> temp_dir[r], dir |-> p.dir, name |-> p.name,
                  data |-> RawData(p)] : p \in F}
          /\ subdirs' = subdirs \cup
                {<<temp_dir[r], p.dir>> : p \in {q \in F : q.dir # Root}}
          /\ written' = [written EXCEPT ![r] = @ \cup F]
          /\ provider' = [provider EXCEPT ![r] =
                             IF raised THEN "raised" ELSE "returned"]
          /\ IF raised
             THEN OnProviderError(r)
             ELSE /\ pc' = [pc EXCEPT ![r] = "Discovering"]
                  /\ UNCHANGED <<status, body>>
    /\ UNCHANGED <<hookDefined, tmpdirs, req, temp_dir, downloaded, resp,
                   logged, sanVars>>

\* The os.walk loop and the emptiness check after it.
Walk(r) ==
    /\ pc[r] = "Discovering"
    /\ \E o \in WalkOrders(temp_dir[r]) :
          /\ downloaded' = [downloaded EXCEPT ![r] = o]
          /\ IF o = <<>>
             THEN Fail(r, 500, [kind |-> "NoArtifacts", detail |-> req[r].rtype])
             ELSE /\ pc' = [pc EXCEPT ![r] = "Assembling"]
                  /\ UNCHANGED <<status, body>>
    /\ UNCHANGED <<hookDefined, fsVars, req, temp_dir, calls, written, resp,
                   logged, provider, sanVars>>

\* The last match instead of the first.
last_artifact(found) == found[Len(found)]

\* audio_file = downloaded_files[0]
first_artifact(found) == found[1]

\* download_song, from the choice of audio_file to the rename.
AssembleSong(r) ==
    /\ pc[r] = "Assembling"
    /\ req[r].rtype = "song"
    /\ LET quality == get_quality(req[r].quality)
           audio_file == first_artifact(downloaded[r])
           new_filename == new_filename_of(audio_file.name, quality)
           new_filepath == join(temp_dir[r], new_filename)
           go == /\ pc' = [pc EXCEPT ![r] = "Sending"]
                 /\ resp' = [resp EXCEPT ![r].path = new_filepath,
                                         ![r].download_name = new_filename]
                 /\ UNCHANGED <<status, body>>
       IN IF audio_file # new_filepath
          THEN \/ /\ files' = (files \ (FileAt(audio_file) \cup FileAt(new_filepath)))
                        \cup {[wd |-> new_filepath.wd, dir |-> new_filepath.dir,
                               name |-> new_filepath.name,
                               data |-> DataAt(audio_file)]}
                  /\ go
               \/ /\ UNCHANGED <<files, resp>>
                  /\ Fail(r, 500, ErrorBody("OSError"))
          ELSE /\ UNCHANGED files
               /\ go
    /\ UNCHANGED <<hookDefined, tmpdirs, subdirs, req, temp_dir, calls,
                   written, downloaded, logged, provider, sanVars>>

\* arcname = os.path.relpath(file_path, temp_dir), for every audio file
zip_entries(found) == [i \in 1..Len(found) |-> relpath(found[i])]

\* download_album / download_playlist: the zip file.
AssembleZip(r) ==
    /\ pc[r] = "Assembling"
    /\ req[r].rtype \in {"album", "playlist"}
    /\ LET zip_path == join(temp_dir[r], zip_name(req[r].rtype, req[r].id))
           write(entries) ==
              files' = (files \ FileAt(zip_path))
                 \cup {[wd |-> zip_path.wd, dir |-> zip_path.dir,
                        name |-> zip_path.name, data |-> ZipData(entries)]}
       IN \/ /\ write(zip_entries(downloaded[r]))
             /\ pc' = [pc EXCEPT ![r] = "Sending"]
             /\ resp' = [resp EXCEPT ![r].path = zip_path,
                                     ![r].download_name = zip_path.name]
             /\ UNCHANGED <<status, body>>
          \/ /\ write(<<>>)
             /\ UNCHANGED resp
             /\ Fail(r, 500, ErrorBody("OSError"))
    /\ UNCHANGED <<hookDefined, tmpdirs, subdirs, req, temp_dir, calls,
                   written, downloaded, logged, provider, sanVars>>

\* send_file(...), then the decorator @response.call_after_request and
\* return response. The attribute is looked up on the response object the
\* framework returned. Flask's Response (werkzeug's) defines call_on_close and
\* no call_after_request, so there the lookup raises AttributeError inside the
\* try block and the except clause answers 500; hookDefined = TRUE covers a
\* response class that does provide it and runs the callback after the request.
Send(r) ==
    /\ pc[r] = "Sending"
    /\ resp' = [resp EXCEPT
          ![r].made = TRUE,
          ![r].payload = DataAt(resp[r].path),
          ![r].mimetype = IF req[r].rtype = "song"
                          THEN mimetype_for(get_quality(req[r].quality))
                          ELSE "application/zip"]
    /\ IF hookDefined
       THEN /\ pc' = [pc EXCEPT ![r] = "Streaming"]
            /\ status' = [status EXCEPT ![r] = 200]
            /\ body' = [body EXCEPT ![r] = [kind |-> "file", detail |-> "none"]]
       ELSE Fail(r, 500, ErrorBody("AttributeError"))
    /\ UNCHANGED <<hookDefined, fsVars, req, temp_dir, calls, written,
                   downloaded, logged, provider, sanVars>>

\* The response has been handed over; the registered callback starts.
FinishStream(r) ==
    /\ pc[r] = "Streaming"
    /\ pc' = [pc EXCEPT ![r] = "CleaningUp"]
    /\ UNCHANGED <<hookDefined, fsVars, req, temp_dir, calls, written,
                   downloaded, resp, status, body, logged, provider, sanVars>>

\* remove_file / remove_files: os.remove(audio_file) / os.remove(zip_path).
RemovePayload(r) ==
    /\ pc[r] = "CleaningUp"
    /\ \/ /\ files' = files \ FileAt(resp[r].path)
          /\ pc' = [pc EXCEPT ![r] = "RemovingDir"]
          /\ UNCHANGED logged
       \/ /\ UNCHANGED files
          /\ logged' = [logged EXCEPT ![r] = TRUE]
          /\ pc' = [pc EXCEPT ![r] = "Done"]
    /\ UNCHANGED <<hookDefined, tmpdirs, subdirs, req, temp_dir, calls,
                   written, downloaded, resp, status, body, provider, sanVars>>

\* os.rmdir(temp_dir): only an empty directory is removed.
rmdir_ok(wd) == FilesUnder(wd) = {} /\ {s \in subdirs : s[1] = wd} = {}

\* remove_file: os.rmdir(temp_dir); remove_files: shutil.rmtree(temp_dir).
RemoveDir(r) ==
    /\ pc[r] = "RemovingDir"
    /\ IF req[r].rtype = "song"
       THEN IF rmdir_ok(temp_dir[r])
            THEN /\ tmpdirs' = tmpdirs \ {temp_dir[r]}
                 /\ UNCHANGED <<subdirs, files, logged>>
            ELSE /\ logged' = [logged EXCEPT ![r] = TRUE]
                 /\ UNCHANGED fsVars
       ELSE /\ tmpdirs' = tmpdirs \ {temp_dir[r]}
            /\ subdirs' = {s \in subdirs : s[1] # temp_dir[r]}
            /\ files' = files \ FilesUnder(temp_dir[r])
            /\ UNCHANGED logged
    /\ pc' = [pc EXCEPT ![r] = "Done"]
    /\ UNCHANGED <<hookDefined, req, temp_dir, calls, written, downloaded,
                   resp, status, body, provider, sanVars>>

Step(r, ids, qualities, fileSets) ==
    \/ Receive(r, ids, qualities)
    \/ Validate(r)
    \/ Mkdtemp(r)
    \/ Invoke(r, fileSets)
    \/ Walk(r)
    \/ AssembleSong(r)
    \/ AssembleZip(r)
    \/ Send(r)
    \/ FinishStream(r)
    \/ RemovePayload(r)
    \/ RemoveDir(r)

\* One request, every input.
Next == Step("r1", Ids(MaxIdLen), QualityArgs, FileSets(RelPaths, MaxFiles))

Spec == Init /\ [][Next]_vars

\* Two overlapping requests; an id that passes validation, the default and the
\* lossless quality, and a provider that writes a.mp3 or n.txt, in the
\* directory or below it.
ConcPaths == {p \in RelPaths : p.name \in {<<"a", ".", "mp3">>, <<"n", ".", "txt">>}}

NextConc ==
    \E r \in Requests :
       Step(r, {<<"7">>}, {"absent", "FLAC"}, FileSets(ConcPaths, MaxConcFiles))

SpecConc == Init /\ [][NextConc]_vars

\* sanitize_filename on its own: applied to a string, then to its own result.
SanChars == BadChars \cup {"_", "a", "."}
SanInputs == UNION {[1..k -> SanChars] : k \in 0..MaxSanLen}

InitSan ==
    /\ hookDefined = FALSE
    /\ InitFs
    /\ InitRequests
    /\ sanIn \in SanInputs
    /\ sanOnce = <<>>
    /\ sanTwice = <<>>
    /\ sanPc = "start"

SanitizeOnce ==
    /\ sanPc = "start"
    /\ sanOnce' = sanitize_filename(sanIn)
    /\ sanPc' = "once"
    /\ UNCHANGED <<hookDefined, fsVars, pc, req, temp_dir, calls, written,
                   downloaded, resp, status, body, logged, provider, sanIn, sanTwice>>

SanitizeTwice ==
    /\ sanPc = "once"
    /\ sanTwice' = sanitize_filename(sanOnce)
    /\ sanPc' = "twice"
    /\ UNCHANGED <<hookDefined, fsVars, pc, req, temp_dir, calls, written,
                   downloaded, resp, status, body, logged, provider, sanIn, sanOnce>>

NextSan == SanitizeOnce \/ SanitizeTwice

SpecSan == InitSan /\ [][NextSan]_vars


\* ================================================================== claims
Terminal(r) == pc[r] \in {"Done", "Failed"}
InFlight(r) == temp_dir[r] # NoDir /\ ~Terminal(r)

\* The temporary directory and everything under it is gone.
WorkDirGone(wd) ==
    /\ wd \notin tmpdirs
    /\ FilesUnder(wd) = {}
    /\ {s \in subdirs : s[1] = wd} = {}

\* The characters the claims name, and what they say of them.
ForbiddenChars == {"<", ">", ":", "\"", "/", "\\", "|", "?", "*"}
Sanitized(in, out) ==
    /\ Len(out) = Len(in)
    /\ \A i \in 1..Len(in) :
          /\ out[i] \notin ForbiddenChars
          /\ in[i] \in ForbiddenChars => out[i] = "_"
          /\ in[i] \notin ForbiddenChars => out[i] = in[i]

\* ^[0-9]+$
MatchesDigits(id) ==
    Len(id) > 0 /\ \A i \in 1..Len(id) : id[i] \in AsciiDigits

\* Every character of the id is a digit (a Unicode digit counts).
AllDigits(id) ==
    Len(id) > 0 /\ \A i \in 1..Len(id) : id[i] \in AsciiDigits \cup {"U+00B2"}

QualityAllowed(arg) == arg \in {"absent", "MP3_128", "MP3_320", "FLAC"}
RequestedQuality(arg) == IF arg = "absent" THEN "MP3_320" ELSE arg

\* A file name with the extension .mp3 or .flac.
HasAudioExtension(name) ==
    /\ Len(name) >= 2
    /\ SubSeq(name, Len(name) - 1, Len(name)) \in {<<".", "mp3">>, <<".", "flac">>}


\* ---------------------------------------------------------------------- C1
\* C1: when a request that created a temporary directory has finished, the
\* directory and everything under it no longer exists, whatever the outcome.
C1_WorkDirRemovedAtEnd ==
    \A r \in Requests :
       (Terminal(r) /\ temp_dir[r] # NoDir) => WorkDirGone(temp_dir[r])

C3_InvalidIdRejected ==
    \A r \in Requests :
       (Terminal(r) /\ ~MatchesDigits(req[r].id))
       => /\ status[r] = 400
          /\ body[r].kind = "InvalidId"

\* ---------------------------------------------------------------------- C4
\* C4: when the provider returned without error and wrote no file with the
\* extension .mp3 or .flac, the request ends with status 500 and the
\* no-artifacts body; nothing is sent and no archive is created.
C4_NoArtifacts ==
    \A r \in Requests :
       (/\ provider[r] = "returned"
        /\ pc[r] # "Discovering"
        /\ \A p \in written[r] : ~HasAudioExtension(p.name))
       => /\ pc[r] = "Failed"
          /\ status[r] = 500
          /\ body[r] = [kind |-> "NoArtifacts", detail |-> req[r].rtype]
          /\ resp[r] = NoResp
          /\ \A f \in FilesUnder(temp_dir[r]) : f.data.kind # "zip"

C4_Witness ==
    \E r \in Requests :
       /\ provider[r] = "returned"
       /\ written[r] # {}
       /\ \A p \in written[r] : ~HasAudioExtension(p.name)
       /\ pc[r] = "Failed"
       /\ body[r].kind = "NoArtifacts"

\* ---------------------------------------------------------------------- C5
\* C5: the provider is called at most once for a request; when that call
\* raises, the request ends with status 500 and an error body carrying the
\* error, and nothing is discovered, packaged or sent.
C5_SingleProviderCall ==
    \A r \in Requests :
       /\ calls[r] <= 1
       /\ provider[r] = "raised"
          => /\ pc[r] = "Failed"
             /\ status[r] = 500
             /\ body[r] = [kind |-> "Error", detail |-> "ProviderError"]
             /\ downloaded[r] = <<>>
             /\ resp[r] = NoResp
             /\ \A f \in FilesUnder(temp_dir[r]) : f.data.kind # "zip"

C5_Witness ==
    \E r \in Requests :
       /\ provider[r] = "raised"
       /\ written[r] # {}
       /\ calls[r] = 1
       /\ status[r] = 500


\* ---------------------------------------------------------------------- C6
\* C6: for an album or playlist request whose archive was built and sent, the
\* archive <type>_<id>.zip holds exactly one entry per audio file the provider
\* wrote, named by the file's path relative to the temporary directory, and
\* nothing else; when the request has finished, the whole directory tree is
\* removed.
AudioWritten(r) == {p \in written[r] : HasAudioExtension(p.name)}

C6_ArchiveExactAndRemoved ==
    \A r \in Requests :
       (req[r].rtype \in {"album", "playlist"} /\ resp[r].made)
       => /\ resp[r].download_name = <<req[r].rtype, "_">> \o req[r].id \o <<".", "zip">>
          /\ resp[r].payload.kind = "zip"
          /\ Len(resp[r].payload.entries) = Cardinality(AudioWritten(r))
          /\ {resp[r].payload.entries[i] : i \in 1..Len(resp[r].payload.entries)}
                = AudioWritten(r)
          /\ Terminal(r) => WorkDirGone(temp_dir[r])

\* ---------------------------------------------------------------------- C7
\* C7: the response send_file builds for a track request carries the first
\* discovered artifact; its attachment name is the sanitized base name of that
\* artifact followed by .flac when the requested quality is FLAC and by .mp3
\* otherwise; its content type is audio/flac exactly when the quality is FLAC
\* and audio/mpeg otherwise; the file sent is the one of that name directly
\* under the temporary directory.
BaseOf(name) == SubSeq(name, 1, Len(name) - 2)

C8_Sanitize ==
    /\ sanPc \in {"once", "twice"} => Sanitized(sanIn, sanOnce)
    /\ sanPc = "twice" => sanTwice = sanOnce

C8_Witness ==
    /\ sanPc = "twice"
    /\ sanIn = <<":", "?">>
    /\ sanTwice = <<"_", "_">>

\* ---------------------------------------------------------------------- C9
\* C9: a request moves through Validating, Invoking, Discovering, Assembling,
\* Streaming, CleaningUp, Done in that order; it can fail only before
\* Streaming begins; once the payload has been produced it reaches Done and
\* never Failed, and a status once returned never changes.
Stage(r) ==
    CASE pc[r] = "Idle" -> 0
      [] pc[r] = "Validating" -> 1
      [] pc[r] \in {"Mkdtemp", "Invoking"} -> 2
      [] pc[r] = "Discovering" -> 3
      [] pc[r] = "Assembling" -> 4
      [] pc[r] \in {"Sending", "Streaming"} -> 5
      [] pc[r] \in {"CleaningUp", "RemovingDir"} -> 6
      [] pc[r] \in {"Done", "Failed"} -> 7

C9_StagesAndNoLateFailure ==
    [][\A r \in Requests :
          /\ Stage(r)' \in {Stage(r), Stage(r) + 1} \/ pc'[r] \in {"Done", "Failed"}
          /\ Stage(r) >= 5 => pc'[r] # "Failed"
          /\ status[r] # 0 => status'[r] = status[r]]_vars

\* --------------------------------------------------------------------- C10
\* C10: requests in flight at the same time never have the same temporary
\* directory; what a request has discovered and what it sends lies under its
\* own directory; and a step of one request leaves the directory and the files
\* of every other request in flight as they were.
OwnPaths(r) ==
    /\ \A i \in 1..Len(downloaded[r]) : downloaded[r][i].wd = temp_dir[r]
    /\ resp[r].path # NoPath => resp[r].path.wd = temp_dir[r]

====
